---- MODULE Spec2Model ----
(***************************************************************************)
(* A model of q2cli/commands.py: the raw-token filter of RootCommand and   *)
(* the resolve / execute / save protocol of ActionCommand.__call__.        *)
(*                                                                         *)
(* Python values are modelled as tuples of strings so that every value can *)
(* be compared with every other one.  Characters are one-element strings,  *)
(* tokens are sequences of characters.                                     *)
(***************************************************************************)
EXTENDS Integers, Sequences, FiniteSets, TLC

\* ------------------------------------------------------------------ bounds
MaxSig == 2        \* longest action signature explored
MaxResults == 2    \* most results the execution engine returns
MaxArgs == 2       \* longest raw argument vector explored

\* ------------------------------------------------------------ value domain
None == <<>>
NotFound == <<"ValueNotFoundException">>
True == <<"true">>

Truthy(v) == v = True

EntryNames == <<"a", "b", "c", "d", "e">>

EntryTypes == {"input", "parameter", "output"}

Signatures ==
  UNION { { [i \in 1..n |-> [name |-> EntryNames[i], type |-> t[i]]] :
              t \in [1..n -> EntryTypes] } : n \in 0..MaxSig }

MetaKeys == {"output_dir", "verbose", "quiet"}

Keys(sig) == { sig[i].name : i \in DOMAIN sig } \cup MetaKeys

CliValue(k) == IF k \in {"verbose", "quiet"} THEN True ELSE <<"cli", k>>

CfgValue(k) == IF k \in {"verbose", "quiet"} THEN True ELSE <<"cfg", k>>

\* The parsed flags click hands to the callback: every option is a key, an
\* option the user did not give holds None.
KwargsFor(sig) ==
  { [k \in Keys(sig) |-> IF k \in S THEN CliValue(k) ELSE None] :
      S \in SUBSET Keys(sig) }

\* The per-plugin-per-action default-values source.
ConfigFor(sig) ==
  { [k \in Keys(sig) |-> IF k \in S THEN CfgValue(k) ELSE None] :
      S \in SUBSET Keys(sig) }

VARIABLES
  pc, signature, kwargs, config,
  arguments, missing_in, verbose, quiet, outputs, missing_out,
  attempted, consulted, stderr, stdout, exitStatus,
  engineCalls, results, log, saved, errorReport,
  argv, rootPc, invalid_chars, categories, rootStderr, rootExit, dispatched,
  cache, plugins, cacheReads, injected, lastList, lastGet, actionCmd,
  ast, declared

actionVars ==
  <<pc, signature, kwargs, config,
    arguments, missing_in, verbose, quiet, outputs, missing_out,
    attempted, consulted, stderr, stdout, exitStatus,
    engineCalls, results, log, saved, errorReport>>

rootVars ==
  <<argv, rootPc, invalid_chars, categories, rootStderr, rootExit, dispatched>>

\* the dispatch tree (plugin snapshot, lookups) and command construction
treeVars ==
  <<cache, plugins, cacheReads, injected, lastList, lastGet, actionCmd,
    ast, declared>>

vars == <<actionVars, rootVars, treeVars>>

\* self._plugins = None, line 65
NoSnapshot == [loaded |-> FALSE, items |-> <<>>]

NoPlugin == [name |-> <<>>, actions |-> <<>>]

NoList == [called |-> FALSE, names |-> <<>>]

NoCommand == [called |-> FALSE, kind |-> "None", name |-> <<>>, plugin |-> NoPlugin]

NoActionCommand ==
  [called |-> FALSE, built |-> FALSE, name |-> <<>>, plugin |-> NoPlugin,
   action |-> <<>>]

TreeIdle ==
  /\ cache = <<>>
  /\ plugins = NoSnapshot
  /\ cacheReads = 0
  /\ injected = FALSE
  /\ lastList = NoList
  /\ lastGet = NoCommand
  /\ actionCmd = NoActionCommand
  /\ ast = <<>>
  /\ declared = <<>>

\* ------------------------------------------------- handlers and fallbacks
\* CommandConfigHandler.get_value: the fallback function it returns looks a
\* name up in the config section and raises ValueNotFoundException when the
\* section does not hold it.  `trace` records that the provider was asked.
cmd_fallback(cfg, name) ==
  [value |-> IF cfg[name] # None THEN cfg[name] ELSE NotFound,
   trace |-> << <<"cmd_config", name>> >>]

\* Handler.get_value: (a) the explicit command-line value, (b) else the
\* fallback function, (c) else ValueNotFoundException with the option name
\* recorded in handler.missing.  f is what the fallback function yields when
\* it is called with this handler's name; it is called in case (b) only, so
\* its trace is part of the result in case (b) only.
HandlerGetValue(kw, name, f) ==
  IF kw[name] # None
  THEN [value |-> kw[name], trace |-> <<>>, missing |-> <<>>]
  ELSE IF f.value # NotFound
       THEN [value |-> f.value, trace |-> f.trace, missing |-> <<>>]
       ELSE [value |-> NotFound, trace |-> f.trace, missing |-> <<name>>]

\* VerboseHandler / QuietHandler.get_value: the flag, else the fallback.
FlagGetValue(kw, cfg, name) ==
  IF Truthy(kw[name])
  THEN [value |-> TRUE, trace |-> <<>>]
  ELSE LET f == cmd_fallback(cfg, name)
       IN  [value |-> Truthy(f.value), trace |-> f.trace]

\* OutputDirHandler.get_value: the declared output directory (explicit, else
\* command config), or NotFound; out_fallback derives a path under it.
OutputDirGetValue(kw, cfg) ==
  HandlerGetValue(kw, "output_dir", cmd_fallback(cfg, "output_dir"))

out_fallback(path, name) ==
  [value |-> IF path # NotFound THEN <<"join">> \o path \o <<name>> ELSE NotFound,
   trace |-> << <<"output_dir", name>> >>]

\* ------------------------------------------------------ handle_in_params
ConflictUnchecked(v, q) == FALSE

\* line 309
Conflict(v, q) == v /\ q

InParamGetValueNoFallback(kw, cfg, name) ==
  HandlerGetValue(kw, name, [value |-> NotFound, trace |-> <<>>])

\* lines 318-326: both branches hand the command-config fallback to the handler
InParamGetValue(kw, cfg, name) ==
  HandlerGetValue(kw, name, cmd_fallback(cfg, name))

RECURSIVE InLoop(_, _, _, _)
\* lines 314-328, the first n entries of the signature
InLoop(sig, kw, cfg, n) ==
  IF n = 0
  THEN [arguments |-> <<>>, missing |-> <<>>, attempted |-> <<>>, consulted |-> <<>>]
  ELSE LET acc == InLoop(sig, kw, cfg, n - 1)
           item == sig[n]
           r == InParamGetValue(kw, cfg, item.name)
       IN  IF item.type \in {"input", "parameter"}
           THEN [arguments |-> IF r.value # NotFound
                               THEN (item.name :> r.value) @@ acc.arguments
                               ELSE acc.arguments,
                 missing |-> acc.missing \o r.missing,
                 attempted |-> Append(acc.attempted, item.name),
                 consulted |-> acc.consulted \o r.trace]
           ELSE acc

\* ----------------------------------------------------- handle_out_params
fallbackOutDirFirst(cfg, path, name) ==
  LET o == out_fallback(path, name)
  IN  IF o.value # NotFound
      THEN o
      ELSE LET c == cmd_fallback(cfg, name)
           IN  [value |-> c.value, trace |-> o.trace \o c.trace]

\* lines 342-346
fallback(cfg, path, name) ==
  LET c == cmd_fallback(cfg, name)
  IN  IF c.value # NotFound
      THEN c
      ELSE LET o == out_fallback(path, name)
           IN  [value |-> o.value, trace |-> c.trace \o o.trace]

RECURSIVE OutLoop(_, _, _, _, _)
\* lines 348-357, the first n entries of the signature
OutLoop(sig, kw, cfg, path, n) ==
  IF n = 0
  THEN [outputs |-> <<>>, missing |-> <<>>, attempted |-> <<>>, consulted |-> <<>>]
  ELSE LET acc == OutLoop(sig, kw, cfg, path, n - 1)
           item == sig[n]
           r == HandlerGetValue(kw, item.name, fallback(cfg, path, item.name))
       IN  IF item.type = "output"
           THEN [outputs |-> IF r.value # NotFound
                             THEN Append(acc.outputs, r.value)
                             ELSE acc.outputs,
                 missing |-> acc.missing \o r.missing,
                 attempted |-> Append(acc.attempted, item.name),
                 consulted |-> acc.consulted \o r.trace]
           ELSE acc

\* ------------------------------------------------------------- __call__
NoLog == [ref |-> "None", exists |-> FALSE, closed |-> FALSE, reaped |-> FALSE]

\* tempfile.NamedTemporaryFile(..., delete=False, mode='w')
NewLogFile == [ref |-> "file", exists |-> TRUE, closed |-> FALSE, reaped |-> FALSE]

HelpText == <<"help">>

ConflictMsg == <<"Unsure of how to be quiet and verbose at the same time.">>

\* _OUTPUT_OPTION_ERR_MSG, lines 362-366
OutputOptionErrMsg == <<"Note: ... you must specify an output directory ...">>

\* line 254
MissingLine(option) == <<"Error: Missing option: --", option>>

MissingInOnly(mi, mo) == mi # <<>>

\* line 247
MissingAny(mi, mo) == mi # <<>> \/ mo # <<>>

MissingChainInOnly(mi, mo) == mi

\* line 253, itertools.chain(missing_in, missing_out)
MissingChain(mi, mo) == mi \o mo

\* lines 252-257: what the blocked invocation writes to the error stream
MissingReport(mi, mo) ==
  LET opts == MissingChain(mi, mo)
  IN  <<HelpText>>
      \o [i \in DOMAIN opts |-> MissingLine(opts[i])]
      \o (IF mo # <<>> THEN <<OutputOptionErrMsg>> ELSE <<>>)

\* q2cli.util.to_cli_name on one character: lowercase, word separator
\* normalised.
ToCliChar(c) ==
  CASE c = "_" -> "-"
    [] c = "Q" -> "q"
    [] c = "P" -> "p"
    [] OTHER -> c

to_cli_name(name) == [i \in DOMAIN name |-> ToCliChar(name[i])]

\* plugin['name'] of the plugin this command belongs to
PluginName == <<"Q", "2", "_", "P">>

\* line 276
Header == <<"Plugin error from ", to_cli_name(PluginName), ":">>

\* The results the execution engine returns: k result objects, each with a
\* type label.
EngineResults(k) == [i \in 1..k |-> [id |-> i, type |-> <<"type", i>>]]

\* result.save(output): persists the result and returns the final path
\* written, the location with the archive extension.
SavePath(output) == output \o <<".qza">>

CleanupNever(raised) == FALSE

CleanupAlways(raised) == TRUE

\* lines 271 and 283: cleanup_logfile is set on the success path only
CleanupLogfile(raised) == ~raised

\* line 289
ShouldRemove(lg, cleanup) == lg.ref = "file" /\ cleanup /\ lg.exists

ZipStrict(rs, outs) ==
  IF Len(rs) = Len(outs)
  THEN [i \in 1..Len(rs) |-> [result |-> rs[i], output |-> outs[i]]]
  ELSE <<>>

ZipReversed(rs, outs) ==
  LET n == IF Len(rs) < Len(outs) THEN Len(rs) ELSE Len(outs)
  IN  [i \in 1..n |-> [result |-> rs[i], output |-> outs[Len(outs) + 1 - i]]]

\* line 293, zip(results, outputs)
Zip(rs, outs) ==
  LET n == IF Len(rs) < Len(outs) THEN Len(rs) ELSE Len(outs)
  IN  [i \in 1..n |-> [result |-> rs[i], output |-> outs[i]]]

\* line 296
SavedLine(type, path) == <<"Saved ", type, " to: ", path>>

\* ----------------------------------------------------- actions: __call__
\* handle_in_params with the conflict check moved below the loop over the
\* signature
handle_in_params_check_last ==
  /\ pc = "handle_in"
  /\ LET v == FlagGetValue(kwargs, config, "verbose")
         q == FlagGetValue(kwargs, config, "quiet")
         r == InLoop(signature, kwargs, config, Len(signature))
     IN  /\ attempted' = attempted \o r.attempted
         /\ consulted' = consulted \o v.trace \o q.trace \o r.consulted
         /\ IF Conflict(v.value, q.value)
            THEN /\ stderr' = Append(stderr, ConflictMsg)
                 /\ pc' = "exit"
                 /\ exitStatus' = 1
                 /\ UNCHANGED <<arguments, missing_in, verbose, quiet>>
            ELSE /\ arguments' = r.arguments
                 /\ missing_in' = r.missing
                 /\ verbose' = v.value
                 /\ quiet' = q.value
                 /\ pc' = "handle_out"
                 /\ UNCHANGED <<stderr, exitStatus>>
  /\ UNCHANGED <<signature, kwargs, config, outputs, missing_out, stdout,
                 engineCalls, results, log, saved, errorReport>>
  /\ UNCHANGED <<rootVars, treeVars>>

\* lines 299-330 (called at line 244)
handle_in_params ==
  /\ pc = "handle_in"
  /\ LET v == FlagGetValue(kwargs, config, "verbose")
         q == FlagGetValue(kwargs, config, "quiet")
         r == InLoop(signature, kwargs, config, Len(signature))
     IN  IF Conflict(v.value, q.value)
         THEN /\ stderr' = Append(stderr, ConflictMsg)
              /\ consulted' = consulted \o v.trace \o q.trace
              /\ pc' = "exit"
              /\ exitStatus' = 1
              /\ UNCHANGED <<arguments, missing_in, verbose, quiet, attempted>>
         ELSE /\ arguments' = r.arguments
              /\ missing_in' = r.missing
              /\ verbose' = v.value
              /\ quiet' = q.value
              /\ attempted' = attempted \o r.attempted
              /\ consulted' = consulted \o v.trace \o q.trace \o r.consulted
              /\ pc' = "handle_out"
              /\ UNCHANGED <<stderr, exitStatus>>
  /\ UNCHANGED <<signature, kwargs, config, outputs, missing_out, stdout,
                 engineCalls, results, log, saved, errorReport>>
  /\ UNCHANGED <<rootVars, treeVars>>

\* lines 332-359 (called at line 245)
handle_out_params ==
  /\ pc = "handle_out"
  /\ LET d == OutputDirGetValue(kwargs, config)
         r == OutLoop(signature, kwargs, config, d.value, Len(signature))
     IN  /\ outputs' = r.outputs
         /\ missing_out' = r.missing
         /\ attempted' = attempted \o r.attempted
         /\ consulted' = consulted \o d.trace \o r.consulted
  /\ pc' = "check_missing"
  /\ UNCHANGED <<signature, kwargs, config, arguments, missing_in, verbose,
                 quiet, stderr, stdout, exitStatus, engineCalls, results,
                 log, saved, errorReport>>
  /\ UNCHANGED <<rootVars, treeVars>>

\* lines 247-258
check_missing ==
  /\ pc = "check_missing"
  /\ IF MissingAny(missing_in, missing_out)
     THEN /\ stderr' = stderr \o MissingReport(missing_in, missing_out)
          /\ pc' = "exit"
          /\ exitStatus' = 1
     ELSE /\ pc' = "open_log"
          /\ UNCHANGED <<stderr, exitStatus>>
  /\ UNCHANGED <<signature, kwargs, config, arguments, missing_in, verbose,
                 quiet, outputs, missing_out, attempted, consulted, stdout,
                 engineCalls, results, log, saved, errorReport>>
  /\ UNCHANGED <<rootVars, treeVars>>

\* lines 260-271
open_log ==
  /\ pc = "open_log"
  /\ log' = IF ~verbose THEN NewLogFile ELSE NoLog
  /\ pc' = "call_action"
  /\ UNCHANGED <<signature, kwargs, config, arguments, missing_in, verbose,
                 quiet, outputs, missing_out, attempted, consulted, stderr,
                 stdout, exitStatus, engineCalls, results, saved, errorReport>>
  /\ UNCHANGED <<rootVars, treeVars>>

\* The host operating system reaps the untouched temporary file while the
\* action runs (comment at lines 285-288).
os_reap ==
  /\ pc = "call_action"
  /\ log.ref = "file"
  /\ log.exists
  /\ log' = [log EXCEPT !.exists = FALSE, !.reaped = TRUE]
  /\ UNCHANGED <<pc, signature, kwargs, config, arguments, missing_in,
                 verbose, quiet, outputs, missing_out, attempted, consulted,
                 stderr, stdout, exitStatus, engineCalls, results, saved,
                 errorReport>>
  /\ UNCHANGED <<rootVars, treeVars>>

\* lines 272-291, the action call raises: q2cli.util.exit_with_error reports
\* and terminates the process, the finally clause runs on the way out
call_action_raises ==
  /\ pc = "call_action"
  /\ engineCalls' = engineCalls + 1
  /\ LET tb == IF verbose THEN [log EXCEPT !.ref = "stderr"] ELSE log
         cleanup == CleanupLogfile(TRUE)
     IN  /\ errorReport' = <<[header |-> Header, traceback |-> tb.ref]>>
         /\ log' = IF ShouldRemove(tb, cleanup)
                   THEN [tb EXCEPT !.closed = TRUE, !.exists = FALSE]
                   ELSE tb
  /\ pc' = "exit"
  /\ exitStatus' = 1
  /\ UNCHANGED <<signature, kwargs, config, arguments, missing_in, verbose,
                 quiet, outputs, missing_out, attempted, consulted, stderr,
                 stdout, results, saved>>
  /\ UNCHANGED <<rootVars, treeVars>>

\* lines 272-291, the action call returns k results
call_action_returns ==
  /\ pc = "call_action"
  /\ engineCalls' = engineCalls + 1
  /\ \E k \in 0..MaxResults : results' = EngineResults(k)
  /\ LET cleanup == CleanupLogfile(FALSE)
     IN  log' = IF ShouldRemove(log, cleanup)
                THEN [log EXCEPT !.closed = TRUE, !.exists = FALSE]
                ELSE log
  /\ pc' = "save_results"
  /\ UNCHANGED <<signature, kwargs, config, arguments, missing_in, verbose,
                 quiet, outputs, missing_out, attempted, consulted, stderr,
                 stdout, exitStatus, saved, errorReport>>
  /\ UNCHANGED <<rootVars, treeVars>>

\* lines 293-297, one iteration of the loop: result.save(output) returns
save_result ==
  /\ pc = "save_results"
  /\ Len(saved) < Len(Zip(results, outputs))
  /\ LET pair == Zip(results, outputs)[Len(saved) + 1]
         path == SavePath(pair.output)
     IN  /\ saved' = Append(saved, [result |-> pair.result.id,
                                     location |-> pair.output])
         /\ stdout' = IF ~quiet
                      THEN Append(stdout, SavedLine(pair.result.type, path))
                      ELSE stdout
  /\ UNCHANGED <<pc, signature, kwargs, config, arguments, missing_in,
                 verbose, quiet, outputs, missing_out, attempted, consulted,
                 stderr, exitStatus, engineCalls, results, log, errorReport>>
  /\ UNCHANGED <<rootVars, treeVars>>

\* line 294, result.save(output) raises: nothing in __call__ catches it, the
\* exception leaves the callback
save_raises ==
  /\ pc = "save_results"
  /\ Len(saved) < Len(Zip(results, outputs))
  /\ pc' = "raised"
  /\ exitStatus' = 1
  /\ UNCHANGED <<signature, kwargs, config, arguments, missing_in, verbose,
                 quiet, outputs, missing_out, attempted, consulted, stderr,
                 stdout, engineCalls, results, log, saved, errorReport>>
  /\ UNCHANGED <<rootVars, treeVars>>

\* line 293, the loop is exhausted and __call__ returns
call_returns ==
  /\ pc = "save_results"
  /\ Len(saved) = Len(Zip(results, outputs))
  /\ pc' = "done"
  /\ exitStatus' = 0
  /\ UNCHANGED <<signature, kwargs, config, arguments, missing_in, verbose,
                 quiet, outputs, missing_out, attempted, consulted, stderr,
                 stdout, engineCalls, results, log, saved, errorReport>>
  /\ UNCHANGED <<rootVars, treeVars>>

RootIdle ==
  /\ argv = <<>>
  /\ rootPc = "idle"
  /\ invalid_chars = <<>>
  /\ categories = <<>>
  /\ rootStderr = <<>>
  /\ rootExit = 0
  /\ dispatched = FALSE

ActionStart ==
  /\ arguments = <<>>
  /\ missing_in = <<>>
  /\ verbose = FALSE
  /\ quiet = FALSE
  /\ outputs = <<>>
  /\ missing_out = <<>>
  /\ attempted = <<>>
  /\ consulted = <<>>
  /\ stderr = <<>>
  /\ stdout = <<>>
  /\ exitStatus = 0
  /\ engineCalls = 0
  /\ results = <<>>
  /\ log = NoLog
  /\ saved = <<>>
  /\ errorReport = <<>>

\* One invocation of an ActionCommand: click has parsed the options into
\* kwargs and calls the callback.
Init ==
  /\ signature \in Signatures
  /\ kwargs \in KwargsFor(signature)
  /\ config \in ConfigFor(signature)
  /\ pc = "handle_in"
  /\ ActionStart
  /\ RootIdle
  /\ TreeIdle

Next ==
  \/ handle_in_params
  \/ handle_out_params
  \/ check_missing
  \/ open_log
  \/ os_reap
  \/ call_action_raises
  \/ call_action_returns
  \/ save_result
  \/ save_raises
  \/ call_returns

Spec == Init /\ [][Next]_vars

\* ------------------------------------------------- RootCommand.__init__
\* line 30; a character is written by its code point
unicodes == {"U2018", "U2019", "U201C", "U201D", "U2014"}

\* the characters \S does not match
Whitespace == {" "}

\* line 31, the literal parts of r'--m-(\S+)-category'
CategoryPrefix == <<"-", "-", "m", "-">>

CategorySuffix == <<"-", "c", "a", "t", "e", "g", "o", "r", "y">>

\* line 43, the literal tail of '--m-%s-column'
ColumnSuffix == <<"-", "c", "o", "l", "u", "m", "n">>

\* The raw tokens explored: plain ones, legacy flags, near misses of the
\* legacy pattern, and tokens with smart quotes or an em-dash.
Tokens ==
  { <<"q">>,
    CategoryPrefix \o <<"x">> \o CategorySuffix,
    CategoryPrefix \o <<"x">> \o ColumnSuffix,
    CategoryPrefix \o <<"x", " ", "y">> \o CategorySuffix,
    CategoryPrefix \o CategorySuffix,
    CategoryPrefix \o <<"x">> \o CategorySuffix \o <<"s">>,
    CategoryPrefix \o <<"x">> \o CategorySuffix \o CategorySuffix,
    CategoryPrefix \o <<"U201C", "y", "U201D">> \o CategorySuffix,
    <<"U2018", "a", "U2019">>,
    <<"a", "U2014", "b">> }

\* line 36, any(x in command for x in unicodes)
HasInvalidChar(command) == \E i \in DOMAIN command : command[i] \in unicodes

\* The group (\S+) of the pattern: what lies between the two literal parts.
ParamName(command) ==
  SubSeq(command, Len(CategoryPrefix) + 1, Len(command) - Len(CategorySuffix))

\* line 39, category_regex.fullmatch(command) is not None: the whole token is
\* the prefix, one or more non-whitespace characters, the suffix
FullMatch(command) ==
  /\ Len(command) > Len(CategoryPrefix) + Len(CategorySuffix)
  /\ SubSeq(command, 1, Len(CategoryPrefix)) = CategoryPrefix
  /\ SubSeq(command, Len(command) - Len(CategorySuffix) + 1, Len(command))
       = CategorySuffix
  /\ \A k \in DOMAIN ParamName(command) : ParamName(command)[k] \notin Whitespace

\* line 43, '--m-%s-column' % param_name
NewName(command) == CategoryPrefix \o ParamName(command) \o ColumnSuffix

RECURSIVE ScanInvalidFirstOnly(_, _)
ScanInvalidFirstOnly(args, n) ==
  IF n = 0 THEN <<>>
  ELSE LET acc == ScanInvalidFirstOnly(args, n - 1)
       IN  IF HasInvalidChar(args[n]) /\ acc = <<>>
           THEN Append(acc, args[n]) ELSE acc

RECURSIVE ScanInvalid(_, _)
\* lines 35-37 over the first n tokens
ScanInvalid(args, n) ==
  IF n = 0 THEN <<>>
  ELSE LET acc == ScanInvalid(args, n - 1)
       IN  IF HasInvalidChar(args[n]) THEN Append(acc, args[n]) ELSE acc

RECURSIVE ScanCategoriesLast(_, _)
ScanCategoriesLast(args, n) ==
  IF n = 0 THEN <<>>
  ELSE LET acc == ScanCategoriesLast(args, n - 1)
       IN  IF FullMatch(args[n])
           THEN << <<args[n], NewName(args[n])>> >> ELSE acc

RECURSIVE ScanCategories(_, _)
\* lines 35 and 39-43 over the first n tokens
ScanCategories(args, n) ==
  IF n = 0 THEN <<>>
  ELSE LET acc == ScanCategories(args, n - 1)
       IN  IF FullMatch(args[n])
           THEN Append(acc, <<args[n], NewName(args[n])>>) ELSE acc

\* lines 46-58: the messages written to the error stream
RootReport(inv, cats) ==
  (IF inv # <<>> THEN << <<"invalid character", inv>> >> ELSE <<>>)
  \o (IF cats # <<>> THEN << <<"categories", cats>> >> ELSE <<>>)

\* lines 26-65
RootCommand_init ==
  /\ rootPc = "init"
  /\ LET inv == ScanInvalid(argv, Len(argv))
         cats == ScanCategories(argv, Len(argv))
     IN  /\ invalid_chars' = inv
         /\ categories' = cats
         /\ IF inv # <<>> \/ cats # <<>>
            THEN /\ rootStderr' = rootStderr \o RootReport(inv, cats)
                 /\ rootExit' = -1
                 /\ rootPc' = "exit"
            ELSE /\ rootPc' = "constructed"
                 /\ UNCHANGED <<rootStderr, rootExit>>
  /\ UNCHANGED <<argv, dispatched>>
  /\ UNCHANGED <<actionVars, treeVars>>

\* The constructed command is run: option parsing and command dispatch.
root_main ==
  /\ rootPc = "constructed"
  /\ dispatched' = TRUE
  /\ rootPc' = "dispatched"
  /\ UNCHANGED <<argv, invalid_chars, categories, rootStderr, rootExit>>
  /\ UNCHANGED <<actionVars, treeVars>>

ActionIdle ==
  /\ signature = <<>>
  /\ kwargs = [k \in MetaKeys |-> None]
  /\ config = [k \in MetaKeys |-> None]
  /\ ActionStart

ArgVectors == UNION { [1..n -> Tokens] : n \in 1..MaxArgs }

InitRoot ==
  /\ argv \in ArgVectors
  /\ rootPc = "init"
  /\ invalid_chars = <<>>
  /\ categories = <<>>
  /\ rootStderr = <<>>
  /\ rootExit = 0
  /\ dispatched = FALSE
  /\ ActionIdle
  /\ pc = "idle"
  /\ TreeIdle

NextRoot ==
  \/ RootCommand_init
  \/ root_main

SpecRoot == InitRoot /\ [][NextRoot]_vars

\* ------------------------------------------------------------ properties
\* The properties below read the invocation's inputs (signature, kwargs,
\* config, argv) directly, not the operators the actions are built from.

InSeq(x, s) == \E i \in DOMAIN s : s[i] = x

IndexOf(x, s) == CHOOSE i \in DOMAIN s : s[i] = x

NamesOf(entries) == [i \in DOMAIN entries |-> entries[i].name]

IsOutput(e) == e.type = "output"

IsInParam(e) == e.type \in {"input", "parameter"}

CliGiven(n) == kwargs[n] # None

CfgGiven(n) == config[n] # None

VerboseResolved == kwargs["verbose"] = True \/ config["verbose"] = True

QuietResolved == kwargs["quiet"] = True \/ config["quiet"] = True

BothFlags == VerboseResolved /\ QuietResolved

OutDirGiven == CliGiven("output_dir") \/ CfgGiven("output_dir")

DeclaredOutDir ==
  IF CliGiven("output_dir") THEN kwargs["output_dir"] ELSE config["output_dir"]

\* An entry no source can supply: no flag, no config value and, for an
\* output, no output directory.
Unresolved(e) ==
  /\ ~CliGiven(e.name)
  /\ ~CfgGiven(e.name)
  /\ (IsOutput(e) => ~OutDirGiven)

SomeUnresolved == \E i \in DOMAIN signature : Unresolved(signature[i])

UnresolvedInParam(e) == IsInParam(e) /\ Unresolved(e)

UnresolvedOutput(e) == IsOutput(e) /\ Unresolved(e)

IsMissingLine(l) == Len(l) = Len(MissingLine("x")) /\ l[1] = MissingLine("x")[1]

Resolving == {"handle_in", "handle_out", "check_missing"}

\* C1: an invocation with an entry that fails to resolve (verbose and quiet
\* not both true) never leaves resolution except by exiting with status 1:
\* the engine is never invoked, no log file is created, nothing is saved, and
\* the output-directory guidance is printed exactly when a missing option
\* belongs to an output entry.
C1_BlockedNeverExecutes ==
  (SomeUnresolved /\ ~BothFlags) =>
    /\ engineCalls = 0
    /\ log = NoLog
    /\ saved = <<>>
    /\ pc \in Resolving \cup {"exit"}
    /\ pc = "exit" =>
         /\ exitStatus = 1
         /\ InSeq(OutputOptionErrMsg, stderr)
              <=> \E i \in DOMAIN signature : UnresolvedOutput(signature[i])

C1_Witness ==
  /\ pc = "exit"
  /\ ~BothFlags
  /\ \E i \in DOMAIN signature : UnresolvedOutput(signature[i])
  /\ \E i \in DOMAIN signature : IsInParam(signature[i]) /\ CliGiven(signature[i].name)
  /\ InSeq(OutputOptionErrMsg, stderr)

\* C2: every input, parameter and output entry is attempted, inputs and
\* parameters first, then outputs, each group in signature order, whatever
\* failed before; the error report holds one Missing option line for each
\* unresolved input/parameter in signature order, then for each unresolved
\* output in signature order, and no other Missing option line.
C2_MissingCollectionExhaustive ==
  ~BothFlags =>
    /\ pc # "handle_in" =>
         SubSeq(attempted, 1, Len(SelectSeq(signature, IsInParam)))
           = NamesOf(SelectSeq(signature, IsInParam))
    /\ pc \notin {"handle_in", "handle_out"} =>
         attempted = NamesOf(SelectSeq(signature, IsInParam))
                       \o NamesOf(SelectSeq(signature, IsOutput))
    /\ pc \notin Resolving =>
         SelectSeq(stderr, IsMissingLine)
           = LET opts == NamesOf(SelectSeq(signature, UnresolvedInParam))
                           \o NamesOf(SelectSeq(signature, UnresolvedOutput))
             IN  [i \in DOMAIN opts |-> <<"Error: Missing option: --", opts[i]>>]

\* an input fails first, an output fails as well and both are reported
C2_Witness ==
  /\ pc = "exit"
  /\ ~BothFlags
  /\ Len(signature) > 1
  /\ UnresolvedInParam(signature[1])
  /\ \E i \in DOMAIN signature : UnresolvedOutput(signature[i])
  /\ Len(SelectSeq(stderr, IsMissingLine)) > 1

\* C3: when verbose and quiet both resolve to true, each from its flag or
\* from the command config, the invocation exits with status 1 before the
\* engine is invoked: no engine call, no log file, no saved result.
C3_VerboseQuietConflictExits ==
  BothFlags =>
    /\ pc \in {"handle_in", "exit"}
    /\ engineCalls = 0
    /\ log = NoLog
    /\ saved = <<>>
    /\ pc = "exit" => exitStatus = 1

\* verbose comes from the command config, quiet from its flag
C3_Witness ==
  /\ pc = "exit"
  /\ kwargs["verbose"] = None
  /\ config["verbose"] = True
  /\ kwargs["quiet"] = True
  /\ ~SomeUnresolved

\* C4: an input or parameter entry resolves to its command-line value when
\* one is given (the command config is then not asked for it), else to its
\* command-config value, else it is recorded as missing.
C4_InParamPrecedence ==
  (~BothFlags /\ pc # "handle_in") =>
    \A i \in DOMAIN signature :
      LET n == signature[i].name
      IN  IsInParam(signature[i]) =>
            /\ CliGiven(n) =>
                 /\ n \in DOMAIN arguments
                 /\ arguments[n] = kwargs[n]
                 /\ arguments[n] # config[n]
                 /\ ~InSeq(<<"cmd_config", n>>, consulted)
                 /\ ~InSeq(n, missing_in)
            /\ (~CliGiven(n) /\ CfgGiven(n)) =>
                 /\ n \in DOMAIN arguments
                 /\ arguments[n] = config[n]
                 /\ ~InSeq(n, missing_in)
            /\ (~CliGiven(n) /\ ~CfgGiven(n)) =>
                 /\ n \notin DOMAIN arguments
                 /\ InSeq(n, missing_in)

\* one entry has both a flag and a config value, another only a config value
C4_Witness ==
  /\ pc = "handle_out"
  /\ \E i \in DOMAIN signature :
       IsInParam(signature[i]) /\ CliGiven(signature[i].name)
         /\ CfgGiven(signature[i].name)
  /\ \E i \in DOMAIN signature :
       IsInParam(signature[i]) /\ ~CliGiven(signature[i].name)
         /\ CfgGiven(signature[i].name)

\* C5: for an output entry without a command-line value the command config
\* is asked first and the output directory only when the command config has
\* no value for the name; the config value wins when both can supply one, the
\* path under the output directory is used when only it can, and the entry is
\* recorded as missing when neither can.
C5_OutputFallbackOrder ==
  (~BothFlags /\ pc \notin {"handle_in", "handle_out"}) =>
    \A i \in DOMAIN signature :
      LET n == signature[i].name
          joined == <<"join">> \o DeclaredOutDir \o <<n>>
      IN  (IsOutput(signature[i]) /\ ~CliGiven(n)) =>
            /\ InSeq(<<"cmd_config", n>>, consulted)
            /\ InSeq(<<"output_dir", n>>, consulted) <=> ~CfgGiven(n)
            /\ InSeq(<<"output_dir", n>>, consulted) =>
                 IndexOf(<<"cmd_config", n>>, consulted)
                   < IndexOf(<<"output_dir", n>>, consulted)
            /\ CfgGiven(n) =>
                 /\ InSeq(config[n], outputs)
                 /\ ~InSeq(joined, outputs)
                 /\ ~InSeq(n, missing_out)
            /\ (~CfgGiven(n) /\ OutDirGiven) =>
                 /\ InSeq(joined, outputs)
                 /\ ~InSeq(n, missing_out)
            /\ (~CfgGiven(n) /\ ~OutDirGiven) =>
                 /\ InSeq(n, missing_out)
                 /\ ~InSeq(joined, outputs)

\* both providers can supply one output, only the output directory another
C5_Witness ==
  /\ pc = "check_missing"
  /\ OutDirGiven
  /\ \E i \in DOMAIN signature :
       IsOutput(signature[i]) /\ ~CliGiven(signature[i].name)
         /\ CfgGiven(signature[i].name)
  /\ \E i \in DOMAIN signature :
       IsOutput(signature[i]) /\ ~CliGiven(signature[i].name)
         /\ ~CfgGiven(signature[i].name)

\* The location an output entry resolves to: its flag, else its config
\* value, else the path under the declared output directory.
ExpectedLocation(e) ==
  IF CliGiven(e.name) THEN kwargs[e.name]
  ELSE IF CfgGiven(e.name) THEN config[e.name]
  ELSE <<"join">> \o DeclaredOutDir \o <<e.name>>

OutputEntries == SelectSeq(signature, IsOutput)

\* C6: when the call returned one result per output entry, the i-th result
\* is saved to the location resolved for the i-th output entry, in signature
\* order, with one confirmation line (type, saved path) per saved result in
\* that order unless quiet; quiet saves all the same and prints none.
C6_ResultsSavedInSignatureOrder ==
  (pc \in {"save_results", "raised", "done"}
     /\ Len(results) = Len(OutputEntries)) =>
    /\ Len(saved) <= Len(OutputEntries)
    /\ pc = "done" => Len(saved) = Len(OutputEntries)
    /\ \A i \in DOMAIN saved :
         /\ saved[i].result = results[i].id
         /\ saved[i].location = ExpectedLocation(OutputEntries[i])
    /\ IF QuietResolved
       THEN stdout = <<>>
       ELSE stdout = [i \in DOMAIN saved |->
                        <<"Saved ", results[i].type, " to: ",
                          ExpectedLocation(OutputEntries[i]) \o <<".qza">> >>]

\* two results saved to two differently resolved outputs, not quiet
C6_Witness ==
  /\ pc = "done"
  /\ ~QuietResolved
  /\ Len(OutputEntries) > 1
  /\ Len(saved) = Len(OutputEntries)
  /\ CliGiven(OutputEntries[1].name)
  /\ ~CliGiven(OutputEntries[Len(OutputEntries)].name)
  /\ Len(stdout) = Len(saved)

EngineFailed == pc = "raised" \/ (pc = "exit" /\ engineCalls > 0)

\* C7: every failure raised by the execution engine, by the action call or
\* by a result's save(path), is reported through the one error-reporting
\* path: the plugin's normalized name as prefix and the log reference (the
\* log file when not verbose, the error stream marker when verbose).
C7_EngineFailuresReportedUniformly ==
  EngineFailed =>
    errorReport =
      << [header |-> <<"Plugin error from ", <<"q", "2", "-", "p">>, ":">>,
          traceback |-> IF VerboseResolved THEN "stderr" ELSE "file"] >>

ActionCallRaised == pc = "exit" /\ engineCalls > 0

\* C8: when the action call raises, nothing is saved, no confirmation line
\* is printed, the action was called once, and when not verbose the log file
\* of the call is still the log reference, is not closed and was not removed
\* by the invocation: it exists unless the host system reaped it during the
\* call.
C8_FailedCallKeepsLog ==
  /\ engineCalls <= 1
  /\ ActionCallRaised =>
       /\ saved = <<>>
       /\ stdout = <<>>
       /\ results = <<>>
       /\ ~VerboseResolved =>
            /\ log.ref = "file"
            /\ ~log.closed
            /\ log.exists <=> ~log.reaped

C8_Witness ==
  /\ ActionCallRaised
  /\ ~VerboseResolved
  /\ log.exists
  /\ Len(OutputEntries) > 0

\* ----------------------------------------------- properties: RootCommand
Disallowed(tok) ==
  \E i \in DOMAIN tok : tok[i] \in {"U2018", "U2019", "U201C", "U201D", "U2014"}

\* tok is --m-X-category for the non-empty, whitespace-free X
LegacyWith(tok, X) ==
  /\ X # <<>>
  /\ \A i \in DOMAIN X : X[i] # " "
  /\ tok = <<"-", "-", "m", "-">> \o X
             \o <<"-", "c", "a", "t", "e", "g", "o", "r", "y">>

Middles(tok) == { SubSeq(tok, a, b) : a \in DOMAIN tok, b \in DOMAIN tok }

Legacy(tok) == \E X \in Middles(tok) : LegacyWith(tok, X)

Suggestion(tok) ==
  LET X == CHOOSE Y \in Middles(tok) : LegacyWith(tok, Y)
  IN  <<"-", "-", "m", "-">> \o X \o <<"-", "c", "o", "l", "u", "m", "n">>

\* C9: a raw argument vector with a token that contains a disallowed
\* punctuation character makes construction exit with status -1 before any
\* parsing or dispatch, and the report names exactly the tokens that contain
\* such a character, all of them, in argument order.
C9_InvalidCharactersReported ==
  (\E i \in DOMAIN argv : Disallowed(argv[i])) =>
    /\ ~dispatched
    /\ rootPc \in {"init", "exit"}
    /\ rootPc = "exit" =>
         /\ rootExit = -1
         /\ \E k \in DOMAIN rootStderr :
              /\ rootStderr[k][1] = "invalid character"
              /\ rootStderr[k][2] = SelectSeq(argv, Disallowed)

\* two different tokens carry a disallowed character
C9_Witness ==
  /\ rootPc = "exit"
  /\ \E i, j \in DOMAIN argv :
       i < j /\ argv[i] # argv[j] /\ Disallowed(argv[i]) /\ Disallowed(argv[j])

\* C10: a raw argument vector with a token that fully matches
\* --m-X-category makes construction exit with status -1 before any parsing,
\* with the suggestion --m-X-column (same X) for each matching occurrence in
\* argument order; when tokens with disallowed punctuation are present too,
\* both reports are written before the one exit.
C10_LegacyCategoryReported ==
  (\E i \in DOMAIN argv : Legacy(argv[i])) =>
    /\ ~dispatched
    /\ rootPc \in {"init", "exit"}
    /\ rootPc = "exit" =>
         /\ rootExit = -1
         /\ \E k \in DOMAIN rootStderr :
              /\ rootStderr[k][1] = "categories"
              /\ rootStderr[k][2] =
                   LET old == SelectSeq(argv, Legacy)
                   IN  [i \in DOMAIN old |-> <<old[i], Suggestion(old[i])>>]
         /\ (\E i \in DOMAIN argv : Disallowed(argv[i])) =>
              /\ Len(rootStderr) > 1
              /\ \E k \in DOMAIN rootStderr :
                   rootStderr[k][1] = "invalid character"

\* two legacy flags with different X next to a token with smart quotes
C10_Witness ==
  /\ rootPc = "exit"
  /\ \E i, j \in DOMAIN argv :
       i < j /\ Legacy(argv[i]) /\ Legacy(argv[j])
         /\ Suggestion(argv[i]) # Suggestion(argv[j])
  /\ \E i \in DOMAIN argv : Disallowed(argv[i])

\* --------------------------------------------------- the dispatch tree
MaxPlugins == 2    \* most plugins in a snapshot

\* _builtin_commands, lines 20-24, in their declared order
BuiltinCommands ==
  << <<"i", "n", "f", "o">>, <<"t", "o", "o", "l", "s">>, <<"d", "e", "v">> >>

\* The characters of the names explored, in code point order.
Alphabet ==
  <<"-", "2", "P", "Q", "_", "a", "b", "c", "d", "e", "f", "i", "l", "n",
    "o", "p", "q", "s", "t", "v", "z">>

CharIndex(c) == CHOOSE i \in DOMAIN Alphabet : Alphabet[i] = c

RECURSIVE StrLess(_, _)
\* Python's < on str: lexicographic by code point
StrLess(a, b) ==
  IF a = <<>> THEN b # <<>>
  ELSE IF b = <<>> THEN FALSE
  ELSE IF Head(a) = Head(b) THEN StrLess(Tail(a), Tail(b))
  ELSE CharIndex(Head(a)) < CharIndex(Head(b))

RECURSIVE sorted(_)
\* sorted() over a set of distinct strings
sorted(S) ==
  IF S = {} THEN <<>>
  ELSE LET m == CHOOSE x \in S : \A y \in S \ {x} : StrLess(x, y)
       IN  <<m>> \o sorted(S \ {m})

\* plugin names: one equal to a built-in, two with the same CLI name
PluginNames ==
  { <<"d", "e", "v">>, <<"Q", "_", "P">>, <<"q", "-", "p">>, <<"a">> }

\* plugin['actions'], action id -> action, in insertion order
ActionSets ==
  { <<>>,
    << [id |-> <<"c">>] >>,
    << [id |-> <<"a", "_", "b">>], [id |-> <<"c">>] >> }

Plugins == { [name |-> n, actions |-> a] : n \in PluginNames, a \in ActionSets }

\* A snapshot of the plugin registry: plugin name -> plugin, in insertion
\* order, the names distinct.
Snapshots ==
  UNION { { sn \in [1..n -> Plugins] :
              \A i, j \in 1..n : sn[i].name = sn[j].name => i = j } :
          n \in 0..MaxPlugins }

\* The snapshots a caller injects in place of the cache (comment at lines
\* 71-73).
InjectedSnapshots == { sn \in Snapshots : Len(sn) <= 1 }

\* The names asked of RootCommand.get_command.
CommandNames ==
  { BuiltinCommands[i] : i \in DOMAIN BuiltinCommands }
    \cup { to_cli_name(n) : n \in PluginNames }
    \cup { <<"Q", "_", "P">>, <<"z">> }

\* The names asked of PluginCommand.get_command.
ActionNames == { <<"a", "-", "b">>, <<"a", "_", "b">>, <<"c">>, <<"z">> }

LoadPluginsAlways(pl, c) ==
  [plugins |-> [loaded |-> TRUE, items |-> c], reads |-> 1]

\* lines 74-76: the cache is read only while self._plugins is None
LoadPlugins(pl, c) ==
  IF ~pl.loaded
  THEN [plugins |-> [loaded |-> TRUE, items |-> c], reads |-> 1]
  ELSE [plugins |-> pl, reads |-> 0]

RECURSIVE NameMap(_, _)
\* lines 78-82 over the first n items of self._plugins
NameMap(items, n) ==
  IF n = 0 THEN <<>>
  ELSE LET acc == NameMap(items, n - 1)
       IN  IF items[n].actions # <<>>
           THEN (to_cli_name(items[n].name) :> items[n]) @@ acc
           ELSE acc

\* lines 67-82, the value of the property
plugin_lookup(items) == NameMap(items, Len(items))

ListCommandsBuiltinsSorted(items) ==
  sorted({ BuiltinCommands[i] : i \in DOMAIN BuiltinCommands })
    \o sorted(DOMAIN plugin_lookup(items))

ListCommandsAllPlugins(items) ==
  BuiltinCommands \o sorted({ to_cli_name(items[i].name) : i \in DOMAIN items })

\* lines 90-92
ListCommands(items) == BuiltinCommands \o sorted(DOMAIN plugin_lookup(items))

GetCommandPluginsFirst(items, name) ==
  IF name \in DOMAIN plugin_lookup(items)
  THEN [called |-> TRUE, kind |-> "plugin", name |-> name,
        plugin |-> plugin_lookup(items)[name]]
  ELSE IF \E i \in DOMAIN BuiltinCommands : BuiltinCommands[i] = name
  THEN [called |-> TRUE, kind |-> "builtin", name |-> name, plugin |-> NoPlugin]
  ELSE [called |-> TRUE, kind |-> "None", name |-> name, plugin |-> NoPlugin]

\* lines 95-103; the PluginCommand holds the plugin and its name
GetCommand(items, name) ==
  IF \E i \in DOMAIN BuiltinCommands : BuiltinCommands[i] = name
  THEN [called |-> TRUE, kind |-> "builtin", name |-> name, plugin |-> NoPlugin]
  ELSE IF name \in DOMAIN plugin_lookup(items)
  THEN [called |-> TRUE, kind |-> "plugin", name |-> name,
        plugin |-> plugin_lookup(items)[name]]
  ELSE [called |-> TRUE, kind |-> "None", name |-> name, plugin |-> NoPlugin]

\* The snapshot injection of the completion writer, before any lookup.
inject_plugins ==
  /\ rootPc = "constructed"
  /\ ~plugins.loaded
  /\ \E sn \in InjectedSnapshots : plugins' = [loaded |-> TRUE, items |-> sn]
  /\ injected' = TRUE
  /\ UNCHANGED <<cache, cacheReads, lastList, lastGet, actionCmd, ast, declared>>
  /\ UNCHANGED <<actionVars, rootVars>>

\* lines 84-92
list_commands ==
  /\ rootPc = "constructed"
  /\ plugins' = LoadPlugins(plugins, cache).plugins
  /\ cacheReads' = cacheReads + LoadPlugins(plugins, cache).reads
  /\ lastList' = [called |-> TRUE, names |-> ListCommands(plugins'.items)]
  /\ UNCHANGED <<cache, injected, lastGet, actionCmd, ast, declared>>
  /\ UNCHANGED <<actionVars, rootVars>>

\* lines 94-103
get_command ==
  /\ rootPc = "constructed"
  /\ \E name \in CommandNames :
       IF \E i \in DOMAIN BuiltinCommands : BuiltinCommands[i] = name
       THEN /\ lastGet' = GetCommand(plugins.items, name)
            /\ UNCHANGED <<plugins, cacheReads>>
       ELSE /\ plugins' = LoadPlugins(plugins, cache).plugins
            /\ cacheReads' = cacheReads + LoadPlugins(plugins, cache).reads
            /\ lastGet' = GetCommand(plugins'.items, name)
  /\ UNCHANGED <<cache, injected, lastList, actionCmd, ast, declared>>
  /\ UNCHANGED <<actionVars, rootVars>>

\* ---------------------------------------------------------- PluginCommand
RECURSIVE ActionMapRawIds(_, _)
ActionMapRawIds(actions, n) ==
  IF n = 0 THEN <<>>
  ELSE (actions[n].id :> actions[n]) @@ ActionMapRawIds(actions, n - 1)

RECURSIVE ActionMap(_, _)
\* lines 114-115 over the first n actions of plugin['actions']
ActionMap(actions, n) ==
  IF n = 0 THEN <<>>
  ELSE (to_cli_name(actions[n].id) :> actions[n]) @@ ActionMap(actions, n - 1)

\* self._action_lookup, lines 114-115
action_lookup(plugin) == ActionMap(plugin.actions, Len(plugin.actions))

\* lines 152-153
NoActionMsg(plugin, name) == <<"Error: QIIME 2 plugin has no action", plugin.name, name>>

\* lines 148-156, on the PluginCommand RootCommand.get_command returned
plugin_get_command ==
  /\ rootPc = "constructed"
  /\ lastGet.kind = "plugin"
  /\ \E name \in ActionNames :
       IF name \in DOMAIN action_lookup(lastGet.plugin)
       THEN /\ actionCmd' = [called |-> TRUE, built |-> TRUE, name |-> name,
                             plugin |-> lastGet.plugin,
                             action |-> action_lookup(lastGet.plugin)[name].id]
            /\ UNCHANGED <<rootPc, rootStderr, rootExit>>
       ELSE /\ actionCmd' = [called |-> TRUE, built |-> FALSE, name |-> name,
                             plugin |-> lastGet.plugin, action |-> <<>>]
            /\ rootStderr' = Append(rootStderr, NoActionMsg(lastGet.plugin, name))
            /\ rootExit' = 2
            /\ rootPc' = "exit"
  /\ UNCHANGED <<argv, invalid_chars, categories, dispatched>>
  /\ UNCHANGED <<cache, plugins, cacheReads, injected, lastList, lastGet,
                 ast, declared>>
  /\ UNCHANGED actionVars

\* A constructed RootCommand with the process-wide cache holding a snapshot.
InitTree ==
  /\ cache \in Snapshots
  /\ plugins = NoSnapshot
  /\ cacheReads = 0
  /\ injected = FALSE
  /\ lastList = NoList
  /\ lastGet = NoCommand
  /\ actionCmd = NoActionCommand
  /\ ast = <<>>
  /\ declared = <<>>
  /\ argv = <<>>
  /\ rootPc = "constructed"
  /\ invalid_chars = <<>>
  /\ categories = <<>>
  /\ rootStderr = <<>>
  /\ rootExit = 0
  /\ dispatched = FALSE
  /\ ActionIdle
  /\ pc = "idle"

NextTree ==
  \/ inject_plugins
  \/ list_commands
  \/ get_command
  \/ plugin_get_command

SpecTree == InitTree /\ [][NextTree]_vars

\* --------------------------------------------- properties: dispatch tree
\* the plugins of the snapshot in use that have at least one action
WithActions == { plugins.items[i] : i \in { j \in DOMAIN plugins.items :
                                             plugins.items[j].actions # <<>> } }

IsBuiltinName(name) ==
  name \in { <<"i", "n", "f", "o">>, <<"t", "o", "o", "l", "s">>, <<"d", "e", "v">> }

\* the action ids of a plugin
IdsOf(plugin) == { plugin.actions[i].id : i \in DOMAIN plugin.actions }

\* C11: PluginCommand.get_command with a name that is not the normalized
\* name of an action of the plugin prints an error naming the plugin and
\* the name and exits with status 2 without building an ActionCommand; with
\* the normalized name of an action it returns an ActionCommand for that
\* action and does not exit.
C11_UnknownActionExits2 ==
  actionCmd.called =>
    IF \E id \in IdsOf(actionCmd.plugin) : to_cli_name(id) = actionCmd.name
    THEN /\ actionCmd.built
         /\ actionCmd.action \in IdsOf(actionCmd.plugin)
         /\ to_cli_name(actionCmd.action) = actionCmd.name
         /\ rootPc # "exit"
         /\ rootStderr = <<>>
    ELSE /\ ~actionCmd.built
         /\ rootPc = "exit"
         /\ rootExit = 2
         /\ rootStderr =
              << <<"Error: QIIME 2 plugin has no action",
                   actionCmd.plugin.name, actionCmd.name>> >>

\* the raw id of an action with an underscore is not its CLI name
C11_Witness ==
  /\ rootPc = "exit"
  /\ rootExit = 2
  /\ actionCmd.name = <<"a", "_", "b">>
  /\ <<"a", "_", "b">> \in IdsOf(actionCmd.plugin)

\* C12: list_commands returns info, tools, dev in that order, followed by
\* the normalized names of exactly the plugins of the snapshot that have an
\* action, in strictly increasing lexicographic order.
C12_ListBuiltinsThenSortedPlugins ==
  lastList.called =>
    LET names == lastList.names
        rest == SubSeq(names, 4, Len(names))
    IN  /\ Len(names) >= 3
        /\ SubSeq(names, 1, 3)
             = << <<"i", "n", "f", "o">>, <<"t", "o", "o", "l", "s">>,
                  <<"d", "e", "v">> >>
        /\ { rest[i] : i \in DOMAIN rest }
             = { to_cli_name(p.name) : p \in WithActions }
        /\ \A i, j \in DOMAIN rest : i < j => StrLess(rest[i], rest[j])

\* two plugins with actions are listed in the reverse of their order in the
\* snapshot
C12_Witness ==
  /\ lastList.called
  /\ Len(lastList.names) = 5
  /\ Len(plugins.items) = 2
  /\ lastList.names[4] = to_cli_name(plugins.items[2].name)

\* C13: get_command returns the built-in for a built-in name even when a
\* plugin has that normalized name; otherwise a PluginCommand for a plugin
\* with an action whose normalized name it is; otherwise nothing.
C13_GetCommandPrecedence ==
  lastGet.called =>
    IF IsBuiltinName(lastGet.name)
    THEN lastGet.kind = "builtin"
    ELSE IF \E p \in WithActions : to_cli_name(p.name) = lastGet.name
    THEN /\ lastGet.kind = "plugin"
         /\ lastGet.plugin \in WithActions
         /\ to_cli_name(lastGet.plugin.name) = lastGet.name
    ELSE lastGet.kind = "None"

\* a plugin named like the built-in dev has actions, dev is asked for
C13_Witness ==
  /\ lastGet.called
  /\ lastGet.name = <<"d", "e", "v">>
  /\ plugins.loaded
  /\ \E p \in WithActions : p.name = <<"d", "e", "v">>

\* C14: the cache is read at most once, never when a snapshot was injected
\* before the first lookup, and the snapshot in use is never replaced once
\* it is set.
C14_SnapshotReadOnce ==
  /\ [](cacheReads <= 1)
  /\ [](injected => cacheReads = 0)
  /\ [](cacheReads = 1 => plugins = [loaded |-> TRUE, items |-> cache])
  /\ [][plugins.loaded => plugins' = plugins]_vars

\* a listing and a plugin lookup after the single read
C14_Witness ==
  /\ cacheReads = 1
  /\ lastList.called
  /\ lastGet.called
  /\ lastGet.kind = "plugin"
  /\ actionCmd.built

\* C18: a name is returned by list_commands exactly when get_command
\* returns a command for it.
C18_ListingAgreesWithLookup ==
  (lastList.called /\ lastGet.called) =>
    (InSeq(lastGet.name, lastList.names) <=> lastGet.kind # "None")

\* the name of a plugin without actions is neither listed nor found
C18_Witness ==
  /\ lastList.called
  /\ lastGet.called
  /\ lastGet.kind = "None"
  /\ \E i \in DOMAIN plugins.items :
       /\ plugins.items[i].actions = <<>>
       /\ to_cli_name(plugins.items[i].name) = lastGet.name

\* -------------------------------------------- ActionCommand construction
MaxConstructions == 2

\* item['ast']['type'] of a signature entry
AstTypes == {"collection", "primitive"}

\* lines 191-195
handler_map(type) ==
  CASE type = "input" -> "ArtifactHandler"
    [] type = "parameter" -> "parameter_handler_factory"
    [] type = "output" -> "ResultHandler"

\* lines 202-207: the handler of one entry, wrapped in a CollectionHandler
\* when the entry's structural type is a collection
NewHandler(item, a) ==
  IF a = "collection"
  THEN [kind |-> "CollectionHandler", inner |-> handler_map(item.type),
        name |-> item.name]
  ELSE [kind |-> handler_map(item.type), inner |-> handler_map(item.type),
        name |-> item.name]

\* handlers[item['name']] = handler on a collections.OrderedDict: a new key
\* goes to the end, a key already held keeps its place
OrderedDictSet(d, k, v) ==
  IF \E i \in DOMAIN d : d[i].key = k
  THEN [i \in DOMAIN d |-> IF d[i].key = k THEN [key |-> k, value |-> v] ELSE d[i]]
  ELSE Append(d, [key |-> k, value |-> v])

RECURSIVE build_generated_handlers(_, _, _)
\* lines 188-211, the first n entries of the signature
build_generated_handlers(sig, as, n) ==
  IF n = 0
  THEN <<>>
  ELSE OrderedDictSet(build_generated_handlers(sig, as, n - 1),
                      sig[n].name, NewHandler(sig[n], as[n]))

\* Handler.get_click_options: the options one entry handler contributes; a
\* CollectionHandler contributes its inner handler's option, accepting
\* repeated occurrences.
get_click_options(handler) ==
  << [prefix |-> CASE handler.inner = "ArtifactHandler" -> "i"
                   [] handler.inner = "parameter_handler_factory" -> "p"
                   [] handler.inner = "ResultHandler" -> "o",
      name |-> handler.name,
      multiple |-> handler.kind = "CollectionHandler"] >>

\* The option of a meta-handler and q2cli.util.citations_option.
MetaOption(name) == [prefix |-> "meta", name |-> name, multiple |-> FALSE]

RECURSIVE GeneratedOptions(_, _)
\* lines 217-218, the first n handlers of generated_handlers.values()
GeneratedOptions(handlers, n) ==
  IF n = 0
  THEN <<>>
  ELSE GeneratedOptions(handlers, n - 1) \o get_click_options(handlers[n].value)

get_click_parametersFlagsFirst(handlers) ==
  GeneratedOptions(handlers, Len(handlers))
    \o <<MetaOption("verbose"), MetaOption("quiet"), MetaOption("output-dir"),
         MetaOption("cmd-config"), MetaOption("citations")>>

\* lines 213-227
get_click_parameters(handlers) ==
  GeneratedOptions(handlers, Len(handlers))
    \o <<MetaOption("output-dir")>>
    \o <<MetaOption("cmd-config")>>
    \o <<MetaOption("verbose")>>
    \o <<MetaOption("quiet")>>
    \o <<MetaOption("citations")>>

\* lines 169-186: one construction of the ActionCommand of the action;
\* `declared` collects the params each construction hands to click.Command
ActionCommand_init ==
  /\ Len(declared) < MaxConstructions
  /\ declared' = Append(declared,
       get_click_parameters(
         build_generated_handlers(signature, ast, Len(signature))))
  /\ UNCHANGED <<cache, plugins, cacheReads, injected, lastList, lastGet,
                 actionCmd, ast>>
  /\ UNCHANGED <<actionVars, rootVars>>

\* An action of the registry, not yet constructed as a command.
InitBuild ==
  /\ signature \in Signatures
  /\ ast \in [1..Len(signature) -> AstTypes]
  /\ kwargs = [k \in MetaKeys |-> None]
  /\ config = [k \in MetaKeys |-> None]
  /\ ActionStart
  /\ pc = "idle"
  /\ RootIdle
  /\ cache = <<>>
  /\ plugins = NoSnapshot
  /\ cacheReads = 0
  /\ injected = FALSE
  /\ lastList = NoList
  /\ lastGet = NoCommand
  /\ actionCmd = NoActionCommand
  /\ declared = <<>>

NextBuild == ActionCommand_init

SpecBuild == InitBuild /\ [][NextBuild]_vars

\* C15: every construction declares one option per signature entry, in
\* signature order (an input, parameter or output option of the entry's
\* name, repeatable exactly when the entry is a collection), followed by
\* output-dir, cmd-config, verbose, quiet and citations in that order; two
\* constructions for the same action declare the same sequence.
C15_DeclaredOptionOrder ==
  /\ \A k \in DOMAIN declared :
       LET opts == declared[k]
           n == Len(signature)
       IN  /\ Len(opts) = n + 5
           /\ \A i \in 1..n :
                /\ opts[i].name = signature[i].name
                /\ opts[i].prefix =
                     (CASE signature[i].type = "input" -> "i"
                        [] signature[i].type = "parameter" -> "p"
                        [] signature[i].type = "output" -> "o")
                /\ opts[i].multiple <=> ast[i] = "collection"
           /\ [i \in 1..5 |-> opts[n + i].name]
                = <<"output-dir", "cmd-config", "verbose", "quiet", "citations">>
           /\ \A i \in 1..5 : opts[n + i].prefix = "meta"
  /\ \A j, k \in DOMAIN declared : declared[j] = declared[k]

\* two constructions of an action with a collection entry and a second
\* entry of another type
C15_Witness ==
  /\ Len(declared) = 2
  /\ Len(signature) = 2
  /\ ast[1] = "collection"
  /\ ast[2] = "primitive"
  /\ signature[1].type # signature[2].type

\* ------------------------------------------ properties: invocation states
Terminal == {"exit", "raised", "done"}

\* the invocation has passed the point where the log is opened
PastOpenLog ==
  \/ pc \in {"call_action", "save_results", "raised", "done"}
  \/ pc = "exit" /\ engineCalls > 0

ResolutionComplete ==
  /\ ~BothFlags
  /\ ~SomeUnresolved
  /\ attempted = NamesOf(SelectSeq(signature, IsInParam))
                   \o NamesOf(SelectSeq(signature, IsOutput))
  /\ missing_in = <<>>
  /\ missing_out = <<>>

Blocked == pc = "exit" /\ engineCalls = 0 /\ exitStatus = 1

Failed == engineCalls = 1 /\ exitStatus # 0 /\ errorReport # <<>>

Succeeded == pc = "done" /\ engineCalls = 1 /\ exitStatus = 0 /\ errorReport = <<>>

\* C16: the action is invoked at most once and only after resolution of
\* every input, parameter and output completed with nothing missing; an
\* invocation that has ended is in exactly one of the terminal states:
\* Blocked (status 1, action never invoked), Failed (non-zero status, reported
\* through the error reporter) or Succeeded (status 0).
C16_InvocationStateMachine ==
  /\ engineCalls <= 1
  /\ engineCalls = 1 => ResolutionComplete
  /\ pc \in Terminal =>
       /\ Blocked \/ Failed \/ Succeeded
       /\ ~(Blocked /\ Failed)
       /\ ~(Blocked /\ Succeeded)
       /\ ~(Failed /\ Succeeded)

\* C17: a temporary log file is created exactly when resolution succeeded
\* and verbose is false, and in verbose mode there is no log object at all
\* while the action runs; once the action call has succeeded no log file of
\* the invocation remains: the invocation closed and removed it, or it was
\* already gone and the removal was skipped with no error and no exit.
C17_LogFileLifecycle ==
  /\ log.ref = "file" => (PastOpenLog /\ ~SomeUnresolved /\ ~BothFlags)
  /\ PastOpenLog => (log.ref = "file" <=> ~VerboseResolved)
  /\ (pc = "call_action" /\ VerboseResolved) => log = NoLog
  /\ pc \in {"save_results", "raised", "done"} =>
       /\ ~log.exists
       /\ errorReport = <<>>
       /\ ~VerboseResolved =>
            /\ log.closed <=> ~log.reaped
            /\ pc = "save_results" => exitStatus = 0

C17_Witness ==
  /\ pc = "done"
  /\ ~VerboseResolved
  /\ log.ref = "file"
  /\ log.closed
  /\ ~log.exists

Min(a, b) == IF a < b THEN a ELSE b

\* C19: when the action call returned a number of results different from
\* the number of output locations, the i-th result is saved to the i-th
\* location for i up to the smaller of the two numbers and nothing else is
\* saved; the surplus raises no error (a failure can only come from saving
\* one of the paired results), and the invocation that saved them all ends
\* with status 0 and nothing on the error stream.
C19_SurplusDropped ==
  (pc \in {"save_results", "raised", "done"}
     /\ Len(results) # Len(OutputEntries)) =>
    LET m == Min(Len(results), Len(OutputEntries))
    IN  /\ Len(saved) <= m
        /\ \A i \in DOMAIN saved :
             /\ saved[i].result = results[i].id
             /\ saved[i].location = ExpectedLocation(OutputEntries[i])
        /\ errorReport = <<>>
        /\ stderr = <<>>
        /\ pc = "raised" => Len(saved) < m
        /\ pc = "done" => (Len(saved) = m /\ exitStatus = 0)

\* two results for one output location: one saved, the invocation succeeded
C19_Witness ==
  /\ pc = "done"
  /\ Len(results) > Len(OutputEntries)
  /\ Len(OutputEntries) > 0
  /\ Len(saved) = Len(OutputEntries)
  /\ exitStatus = 0

\* C20: when verbose and quiet both resolve to true no input, parameter or
\* output entry is ever attempted and no provider is asked for an entry; the
\* invocation exits with status 1 and the error stream holds the conflict
\* message alone: no help text and no Missing option line, whatever is
\* absent.
C20_ConflictCheckedBeforeResolution ==
  BothFlags =>
    /\ attempted = <<>>
    /\ \A i \in DOMAIN consulted : consulted[i][2] \in {"verbose", "quiet"}
    /\ missing_in = <<>>
    /\ missing_out = <<>>
    /\ ~InSeq(<<"help">>, stderr)
    /\ SelectSeq(stderr, IsMissingLine) = <<>>
    /\ pc = "exit" =>
         /\ exitStatus = 1
         /\ stderr = << <<"Unsure of how to be quiet and verbose at the same time.">> >>

\* both flags set while an input and an output cannot be resolved
C20_Witness ==
  /\ pc = "exit"
  /\ BothFlags
  /\ \E i \in DOMAIN signature : UnresolvedInParam(signature[i])
  /\ \E i \in DOMAIN signature : UnresolvedOutput(signature[i])
  /\ exitStatus = 1

=============================================================================
